---- MODULE Spec2Model ----
(***************************************************************************)
(* Model of the TERYT autocomplete service: the CSV loaders of             *)
(* src/loaders.go and the three query operations of src/main.go.           *)
(*                                                                         *)
(* Strings are sequences of one-character strings, so that trimming,       *)
(* lowercasing, splitting, formatting and byte-order comparison are        *)
(* computed character by character, as the Go code computes them.          *)
(***************************************************************************)
EXTENDS Integers, Sequences, FiniteSets, TLC

VARIABLES
    streetFile,   \* contents of the street CSV file (a byte sequence)
    cityFile,     \* contents of the city CSV file (a byte sequence)
    streets,      \* AutocompleteService.streets
    cities,       \* AutocompleteService.cities
    ret,          \* what the last call did: its arguments and what it returned
    mu,           \* AutocompleteService.mu, the reader/writer lock
    gor           \* the goroutines: where each one is in the call it makes

vars == <<streetFile, cityFile, streets, cities, ret, mu, gor>>

(***************************************************************************)
(* Bounds of the model.                                                    *)
(***************************************************************************)
\* the largest number of data lines (lines after the header) of a file
MaxLines == 3
\* the largest limit a query is called with
MaxLimit == 2

(***************************************************************************)
(* Characters and strings.                                                 *)
(***************************************************************************)
\* the byte value of each character the model's inputs use
CharCode ==
    [c \in {"\n", "\r", " ", "\"", "+", "-", "0", "1", "2", "3", "9", ";",
            "A", "B", "a", "b", "h", "u", "x"} |->
        CASE c = "\n" -> 10  [] c = "\r" -> 13  [] c = " " -> 32
          [] c = "\"" -> 34  [] c = "+" -> 43   [] c = "-" -> 45
          [] c = "0" -> 48   [] c = "1" -> 49   [] c = "2" -> 50
          [] c = "3" -> 51   [] c = "9" -> 57   [] c = ";" -> 59
          [] c = "A" -> 65   [] c = "B" -> 66   [] c = "a" -> 97
          [] c = "b" -> 98   [] c = "h" -> 104  [] c = "u" -> 117
          [] c = "x" -> 120]

\* unicode.ToLower on one character
LowerChar(c) == CASE c = "A" -> "a" [] c = "B" -> "b" [] OTHER -> c

\* strings.ToLower
ToLower(s) == [i \in 1..Len(s) |-> LowerChar(s[i])]

\* unicode.IsSpace, on the characters of the model
IsSpace(c) == c \in {" ", "\n", "\r"}

RECURSIVE TrimLeftIn(_, _)
TrimLeftIn(s, cutset) ==
    IF s # <<>> /\ Head(s) \in cutset THEN TrimLeftIn(Tail(s), cutset) ELSE s

RECURSIVE TrimRightIn(_, _)
TrimRightIn(s, cutset) ==
    IF s # <<>> /\ s[Len(s)] \in cutset
    THEN TrimRightIn(SubSeq(s, 1, Len(s) - 1), cutset)
    ELSE s

\* strings.Trim(s, cutset): drops every leading and trailing character of cutset
Trim(s, cutset) == TrimRightIn(TrimLeftIn(s, cutset), cutset)

\* strings.TrimSpace
TrimSpace(s) == Trim(s, {c \in DOMAIN CharCode : IsSpace(c)})

\* strings.HasPrefix
HasPrefix(s, prefix) ==
    /\ Len(prefix) <= Len(s)
    /\ SubSeq(s, 1, Len(prefix)) = prefix

\* strings.Contains
Contains(s, substr) ==
    \E i \in 0..(Len(s) - Len(substr)) : SubSeq(s, i + 1, i + Len(substr)) = substr

\* the Go operator < on strings: byte-wise lexicographic order
RECURSIVE StrLess(_, _)
StrLess(a, b) ==
    IF b = <<>> THEN FALSE
    ELSE IF a = <<>> THEN TRUE
    ELSE IF CharCode[Head(a)] # CharCode[Head(b)]
         THEN CharCode[Head(a)] < CharCode[Head(b)]
         ELSE StrLess(Tail(a), Tail(b))

\* strings.Split(s, sep) for a one-character separator
RECURSIVE Split(_, _)
Split(s, sep) ==
    IF \A i \in 1..Len(s) : s[i] # sep THEN <<s>>
    ELSE LET i == CHOOSE k \in 1..Len(s) :
                      s[k] = sep /\ \A j \in 1..(k - 1) : s[j] # sep
         IN <<SubSeq(s, 1, i - 1)>> \o Split(SubSeq(s, i + 1, Len(s)), sep)

(***************************************************************************)
(* Numbers as text.                                                        *)
(***************************************************************************)
\* the largest value of the Go type int, here that of a 32-bit build
IntMax == 2147483647

IntMin == (-IntMax) - 1

IsDigit(c) == CharCode[c] \in 48..57

DigitVal(c) == CharCode[c] - 48

\* the value of a digit string, or -1 when it exceeds IntMax
RECURSIVE ParseDigits(_, _)
ParseDigits(s, acc) ==
    IF s = <<>> THEN acc
    ELSE IF acc > (IntMax - DigitVal(Head(s))) \div 10 THEN -1
    ELSE ParseDigits(Tail(s), acc * 10 + DigitVal(Head(s)))

\* strconv.Atoi with its error dropped, as every caller does (n, _ := Atoi(s)):
\* 0 on a syntax error, the nearest bound of int on a range error
Atoi(s) ==
    LET neg  == s # <<>> /\ Head(s) = "-"
        body == IF s # <<>> /\ Head(s) \in {"+", "-"} THEN Tail(s) ELSE s
        mag  == ParseDigits(body, 0)
    IN  IF body = <<>> \/ \E i \in 1..Len(body) : ~IsDigit(body[i]) THEN 0
        ELSE IF mag = -1 THEN (IF neg THEN IntMin ELSE IntMax)
        ELSE IF neg THEN -mag ELSE mag

DigitChar(d) ==
    CASE d = 0 -> "0" [] d = 1 -> "1" [] d = 2 -> "2" [] d = 3 -> "3"
      [] d = 4 -> "4" [] d = 5 -> "5" [] d = 6 -> "6" [] d = 7 -> "7"
      [] d = 8 -> "8" [] d = 9 -> "9"

RECURSIVE FormatNat(_)
FormatNat(n) ==
    IF n < 10 THEN <<DigitChar(n)>>
    ELSE Append(FormatNat(n \div 10), DigitChar(n % 10))

\* the verb %d of fmt.Sprintf
FormatInt(n) ==
    IF n >= 0 THEN FormatNat(n)
    ELSE IF n = IntMin
         THEN <<"-">> \o Append(FormatNat(IntMax \div 10), DigitChar((IntMax % 10) + 1))
         ELSE <<"-">> \o FormatNat(-n)

(***************************************************************************)
(* The loaders (src/loaders.go).                                           *)
(***************************************************************************)
\* what a load gets for a path that cannot be opened or read: no byte sequence
Unreadable == <<"unreadable">>

\* the number of fields of a valid data line
NumFields == 10

\* readLine with the bug of reporting the end of the input also when a last
\* line without a line end has been read
RECURSIVE readLineDropsUnended(_, _, _)
readLineDropsUnended(data, pos, line) ==
    IF pos > Len(data)
    THEN [line |-> <<>>, pos |-> pos, err |-> TRUE]
    ELSE IF data[pos] = "\n"
         THEN [line |-> line, pos |-> pos + 1, err |-> FALSE]
         ELSE IF data[pos] # "\r"
              THEN readLineDropsUnended(data, pos + 1, Append(line, data[pos]))
              ELSE readLineDropsUnended(data, pos + 1, line)

\* readLine: the line that starts at position pos of data, the position after
\* it, and whether readLine returned an error (nothing left to read)
RECURSIVE readLine(_, _, _)
readLine(data, pos, line) ==
    IF pos > Len(data)
    THEN [line |-> line, pos |-> pos, err |-> (line = <<>>)]
    ELSE IF data[pos] = "\n"
         THEN [line |-> line, pos |-> pos + 1, err |-> FALSE]
         ELSE IF data[pos] # "\r"
              THEN readLine(data, pos + 1, Append(line, data[pos]))
              ELSE readLine(data, pos + 1, line)

\* the field clean-up of both loaders: strings.Trim(strings.TrimSpace(f), "\"")
CleanField(f) == Trim(TrimSpace(f), {"\""})

CleanFields(fields) == [i \in 1..Len(fields) |-> CleanField(fields[i])]

\* the display name LoadCSV builds
FullNameOf(cecha, nazwa1, nazwa2) ==
    IF nazwa2 # <<>>
    THEN cecha \o <<" ">> \o nazwa1 \o <<" ">> \o nazwa2
    ELSE cecha \o <<" ">> \o nazwa1

\* the StreetRecord LoadCSV builds from the cleaned fields of a line
StreetOf(f) ==
    [WOJ |-> Atoi(f[1]), POW |-> Atoi(f[2]), GMI |-> Atoi(f[3]),
     RODZGMI |-> Atoi(f[4]), SYM |-> Atoi(f[5]), SYMUL |-> Atoi(f[6]),
     CECHA |-> f[7], NAZWA1 |-> f[8], NAZWA2 |-> f[9],
     FullName |-> FullNameOf(f[7], f[8], f[9])]

\* the CityRecord LoadCitiesCSV builds from the cleaned fields of a line
CityOf(f) ==
    [WOJ |-> Atoi(f[1]), POW |-> Atoi(f[2]), GMI |-> Atoi(f[3]),
     RODZGMI |-> Atoi(f[4]), RM |-> Atoi(f[5]), MZ |-> Atoi(f[6]),
     NAZWA |-> f[7], SYM |-> Atoi(f[8]), SYMPOD |-> Atoi(f[9])]

\* the round of LoadCSV with the bug of not checking the name
StreetLineNoNameCheck(line, acc) ==
    LET fields == Split(line, ";")
    IN  IF Len(fields) # NumFields THEN acc
        ELSE Append(acc, StreetOf(CleanFields(fields)))

\* one round of the loop of LoadCSV: the records after the line has been handled
StreetLine(line, acc) ==
    LET fields == Split(line, ";")
        f      == CleanFields(fields)
    IN  IF Len(fields) # NumFields THEN acc
        ELSE IF f[8] = <<>> THEN acc
        ELSE Append(acc, StreetOf(f))

\* one round of the loop of LoadCitiesCSV
CityLine(line, acc) ==
    LET fields == Split(line, ";")
        f      == CleanFields(fields)
    IN  IF Len(fields) # NumFields THEN acc
        ELSE IF f[7] = <<>> THEN acc
        ELSE Append(acc, CityOf(f))

\* the loop of LoadCSV from position pos: readLine until it returns an error
RECURSIVE StreetLoop(_, _, _)
StreetLoop(data, pos, acc) ==
    LET r == readLine(data, pos, <<>>)
    IN  IF r.err THEN acc ELSE StreetLoop(data, r.pos, StreetLine(r.line, acc))

RECURSIVE CityLoop(_, _, _)
CityLoop(data, pos, acc) ==
    LET r == readLine(data, pos, <<>>)
    IN  IF r.err THEN acc ELSE CityLoop(data, r.pos, CityLine(r.line, acc))

\* the records LoadCSV stores for a readable file: the header line is read
\* and dropped, whatever readLine returned for it
ParseStreets(data) == StreetLoop(data, readLine(data, 1, <<>>).pos, <<>>)

ParseCities(data) == CityLoop(data, readLine(data, 1, <<>>).pos, <<>>)

(***************************************************************************)
(* The queries (src/main.go).                                              *)
(***************************************************************************)
\* sort.Slice(s, less): the orders it can leave s in, less[i, j] being the
\* less function on the elements i and j of s. It is not a stable sort, so
\* elements that less does not order may end in either order.
SortSlice(s, less) ==
    LET n     == Len(s)
        perms == {p \in [1..n -> 1..n] : \A i, j \in 1..n : i # j => p[i] # p[j]}
    IN  {[i \in 1..n |-> s[p[i]]] : p \in
            {q \in perms : \A i, j \in 1..n : i < j => ~less[q[j], q[i]]}}

\* the query as both searches use it: strings.ToLower(strings.TrimSpace(query))
NormalizeQuery(query) == ToLower(TrimSpace(query))

\* SearchStreets with the bug of having no early return
StreetEarlyReturnNever(query) == FALSE

\* the early return of SearchStreets, taken on the query as it was passed
StreetEarlyReturn(query) == query = <<>>

\* make([]T, 0, limit) panics when limit is negative
MakePanics(limit) == limit < 0

\* the test that ends the scan, with the bug of > for >=
ScanStopsOneLate(results, limit) == Len(results) > limit

\* the test that ends the scan of both searches
ScanStops(results, limit) == Len(results) >= limit

\* the match of SearchStreets with the bug of searching the display name
StreetMatchesFullName(street, q) ==
    LET fullLower == ToLower(street.FullName)
    IN  HasPrefix(fullLower, q) \/ Contains(fullLower, q)

\* whether SearchStreets takes a street for the normalised query q
StreetMatches(street, q) ==
    LET nazwa1Lower == ToLower(street.NAZWA1)
    IN  HasPrefix(nazwa1Lower, q) \/ Contains(nazwa1Lower, q)

\* the key of SearchStreets with the bug of deduplicating by street identifier
StreetKeyById(street) == FormatInt(street.SYMUL)

\* the deduplication key of SearchStreets
StreetKey(street) == street.FullName

\* the scan of SearchStreets with the bug of counting toward the limit also
\* the matches it drops as duplicates
RECURSIVE StreetScanCountsDuplicates(_, _, _, _, _, _)
StreetScanCountsDuplicates(list, i, q, limit, results, seen) ==
    IF \/ i > Len(list)
       \/ Cardinality({j \in 1..(i - 1) : StreetMatches(list[j], q)}) >= limit
    THEN results
    ELSE IF StreetMatches(list[i], q) /\ StreetKey(list[i]) \notin seen
         THEN StreetScanCountsDuplicates(list, i + 1, q, limit, Append(results, list[i]),
                                         seen \cup {StreetKey(list[i])})
         ELSE StreetScanCountsDuplicates(list, i + 1, q, limit, results, seen)

\* the scan of SearchStreets over s.streets, from index i
RECURSIVE StreetScan(_, _, _, _, _, _)
StreetScan(list, i, q, limit, results, seen) ==
    IF i > Len(list) \/ ScanStops(results, limit) THEN results
    ELSE IF StreetMatches(list[i], q) /\ StreetKey(list[i]) \notin seen
         THEN StreetScan(list, i + 1, q, limit, Append(results, list[i]),
                         seen \cup {StreetKey(list[i])})
         ELSE StreetScan(list, i + 1, q, limit, results, seen)

\* the less function of SearchStreets with the bug of ranking by name alone
StreetLessByNameOnly(q, a, b) == StrLess(a.NAZWA1, b.NAZWA1)

\* the less function SearchStreets sorts with
StreetLess(q, a, b) ==
    LET prefixI == HasPrefix(ToLower(a.NAZWA1), q)
        prefixJ == HasPrefix(ToLower(b.NAZWA1), q)
    IN  IF prefixI /\ ~prefixJ THEN TRUE
        ELSE IF ~prefixI /\ prefixJ THEN FALSE
        ELSE StrLess(a.NAZWA1, b.NAZWA1)

\* what a call returns: a value, or nothing because it panicked
Returned(v) == [panicked |-> FALSE, value |-> v]
Panicked == [panicked |-> TRUE, value |-> <<>>]

\* the outcomes of SearchStreets(query, limit) on the stored streets list
SearchStreetsOutcomes(list, query, limit) ==
    IF StreetEarlyReturn(query) THEN {Returned(<<>>)}
    ELSE IF MakePanics(limit) THEN {Panicked}
    ELSE LET q == NormalizeQuery(query)
             results == StreetScan(list, 1, q, limit, <<>>, {})
             less == [i, j \in DOMAIN results |-> StreetLess(q, results[i], results[j])]
         IN  {Returned(r) : r \in SortSlice(results, less)}

\* the filters of SearchCities with the bug of leaving the gmi filter out
CityPassesFiltersNoGmi(city, woj, pow, gmi) ==
    /\ ~(woj > 0 /\ city.WOJ # woj)
    /\ ~(pow > 0 /\ city.POW # pow)

\* the administrative filters of SearchCities: a value that is not positive
\* filters nothing
CityPassesFilters(city, woj, pow, gmi) ==
    /\ ~(woj > 0 /\ city.WOJ # woj)
    /\ ~(pow > 0 /\ city.POW # pow)
    /\ ~(gmi > 0 /\ city.GMI # gmi)

\* whether SearchCities takes a city for the normalised query q
CityMatches(city, q) ==
    LET nazwaLower == ToLower(city.NAZWA)
    IN  q = <<>> \/ HasPrefix(nazwaLower, q) \/ Contains(nazwaLower, q)

\* the deduplication key of SearchCities: fmt.Sprintf("%s-%d-%d-%d", ...)
CityKey(city) ==
    city.NAZWA \o <<"-">> \o FormatInt(city.WOJ) \o <<"-">> \o FormatInt(city.POW)
        \o <<"-">> \o FormatInt(city.GMI)

\* the scan of SearchCities over s.cities, from index i
RECURSIVE CityScan(_, _, _, _, _, _, _, _, _)
CityScan(list, i, q, woj, pow, gmi, limit, results, seen) ==
    IF i > Len(list) \/ ScanStops(results, limit) THEN results
    ELSE IF /\ CityPassesFilters(list[i], woj, pow, gmi)
            /\ CityMatches(list[i], q)
            /\ CityKey(list[i]) \notin seen
         THEN CityScan(list, i + 1, q, woj, pow, gmi, limit,
                       Append(results, list[i]), seen \cup {CityKey(list[i])})
         ELSE CityScan(list, i + 1, q, woj, pow, gmi, limit, results, seen)

\* the less function of SearchCities with the bug of comparing the lowercased
\* names
CityLessIgnoreCase(q, a, b) ==
    IF q = <<>> THEN StrLess(ToLower(a.NAZWA), ToLower(b.NAZWA))
    ELSE LET prefixI == HasPrefix(ToLower(a.NAZWA), q)
             prefixJ == HasPrefix(ToLower(b.NAZWA), q)
         IN  IF prefixI /\ ~prefixJ THEN TRUE
             ELSE IF ~prefixI /\ prefixJ THEN FALSE
             ELSE StrLess(ToLower(a.NAZWA), ToLower(b.NAZWA))

\* the less function SearchCities sorts with
CityLess(q, a, b) ==
    IF q = <<>> THEN StrLess(a.NAZWA, b.NAZWA)
    ELSE LET prefixI == HasPrefix(ToLower(a.NAZWA), q)
             prefixJ == HasPrefix(ToLower(b.NAZWA), q)
         IN  IF prefixI /\ ~prefixJ THEN TRUE
             ELSE IF ~prefixI /\ prefixJ THEN FALSE
             ELSE StrLess(a.NAZWA, b.NAZWA)

\* the outcomes of SearchCities(query, woj, pow, gmi, limit) on the stored cities
SearchCitiesOutcomes(list, query, woj, pow, gmi, limit) ==
    IF MakePanics(limit) THEN {Panicked}
    ELSE LET q == NormalizeQuery(query)
             results == CityScan(list, 1, q, woj, pow, gmi, limit, <<>>, {})
             less == [i, j \in DOMAIN results |-> CityLess(q, results[i], results[j])]
         IN  {Returned(r) : r \in SortSlice(results, less)}

\* the match of GetGMIForStreet with the bug of a prefix match
GmiMatchesPrefix(street, streetNameLower) ==
    HasPrefix(ToLower(street.NAZWA1), streetNameLower)

\* whether GetGMIForStreet takes a street: exact match on NAZWA_1, lowercased
GmiMatches(street, streetNameLower) == ToLower(street.NAZWA1) = streetNameLower

\* the deduplication key of GetGMIForStreet: fmt.Sprintf("%d-%d-%d", ...)
GmiKey(street) ==
    FormatInt(street.WOJ) \o <<"-">> \o FormatInt(street.POW) \o <<"-">>
        \o FormatInt(street.GMI)

\* the scan of GetGMIForStreet over s.streets, from index i
RECURSIVE GmiScan(_, _, _, _, _)
GmiScan(list, i, streetNameLower, results, seen) ==
    IF i > Len(list) THEN results
    ELSE IF GmiMatches(list[i], streetNameLower) /\ GmiKey(list[i]) \notin seen
         THEN GmiScan(list, i + 1, streetNameLower,
                      Append(results, [woj |-> list[i].WOJ, pow |-> list[i].POW,
                                       gmi |-> list[i].GMI]),
                      seen \cup {GmiKey(list[i])})
         ELSE GmiScan(list, i + 1, streetNameLower, results, seen)

\* the less function GetGMIForStreet sorts with
GmiLess(a, b) ==
    IF a.woj # b.woj THEN a.woj < b.woj
    ELSE IF a.pow # b.pow THEN a.pow < b.pow
    ELSE a.gmi < b.gmi

\* the outcomes of GetGMIForStreet(streetName) on the stored streets list
GetGMIForStreetOutcomes(list, streetName) ==
    LET name == TrimSpace(streetName)
    IN  IF name = <<>> THEN {Returned(<<>>)}
        ELSE LET results == GmiScan(list, 1, ToLower(name), <<>>, {})
                 less == [i, j \in DOMAIN results |-> GmiLess(results[i], results[j])]
             IN  {Returned(r) : r \in SortSlice(results, less)}

(***************************************************************************)
(* The inputs the model draws: files, queries, limits, filters.            *)
(***************************************************************************)
\* a line of a file: its fields joined by semicolons
RECURSIVE Line(_)
Line(fields) ==
    IF Len(fields) = 1 THEN fields[1]
    ELSE fields[1] \o <<";">> \o Line(Tail(fields))

\* a file: the header line, then the data lines, each line ended by eol,
\* the last one only when finalEol
RECURSIVE JoinLines(_, _, _)
JoinLines(lines, eol, finalEol) ==
    IF lines = <<>> THEN <<>>
    ELSE IF Len(lines) = 1 THEN lines[1] \o (IF finalEol THEN eol ELSE <<>>)
    ELSE lines[1] \o eol \o JoinLines(Tail(lines), eol, finalEol)

Header == <<"h">>

FileOf(lines, eol, finalEol) == JoinLines(<<Header>> \o lines, eol, finalEol)

LF == <<"\n">>
CRLF == <<"\r", "\n">>

\* every sequence over S of at most n elements
SeqsUpTo(S, n) == UNION {[1..k -> S] : k \in 0..n}

\* the data lines of the street files the searches are run on: three streets
\* named "ab" (two of them with the same display name, in two municipalities,
\* the third of another type and voivodeship), a street "Ba", a street "bb"
\* of type "a" with a secondary name, and a line of nine fields
StreetLines ==
    { Line(<<<<"1">>, <<"1">>, <<"1">>, <<"1">>, <<"1">>, <<"1">>, <<"u">>, <<"a", "b">>, <<>>, <<"x">>>>),
      Line(<<<<"1">>, <<"1">>, <<"2">>, <<"1">>, <<"1">>, <<"2">>, <<"u">>, <<"a", "b">>, <<>>, <<"x">>>>),
      Line(<<<<"2">>, <<"1">>, <<"1">>, <<"1">>, <<"1">>, <<"3">>, <<"a">>, <<"a", "b">>, <<>>, <<"x">>>>),
      Line(<<<<"1">>, <<"1">>, <<"1">>, <<"1">>, <<"1">>, <<"1">>, <<"u">>, <<"B", "a">>, <<>>, <<"x">>>>),
      Line(<<<<"1">>, <<"1">>, <<"1">>, <<"1">>, <<"1">>, <<"1">>, <<"a">>, <<"b", "b">>, <<"b">>, <<"x">>>>),
      Line(<<<<"1">>, <<"1">>, <<"1">>, <<"1">>, <<"1">>, <<"1">>, <<"u">>, <<"a", "b">>, <<"x">>>>) }

StreetFiles == {FileOf(ls, LF, TRUE) : ls \in SeqsUpTo(StreetLines, MaxLines)}

\* the data lines of the city files the searches are run on: two localities
\* "ab" in two municipalities, a locality "Ba" in another county, and the
\* localities "a" of voivodeship -1 and "a-" of voivodeship 1
CityLines ==
    { Line(<<<<"1">>, <<"1">>, <<"1">>, <<"1">>, <<"1">>, <<"1">>, <<"a", "b">>, <<"1">>, <<"1">>, <<"x">>>>),
      Line(<<<<"2">>, <<"1">>, <<"2">>, <<"1">>, <<"1">>, <<"1">>, <<"a", "b">>, <<"2">>, <<"1">>, <<"x">>>>),
      Line(<<<<"1">>, <<"2">>, <<"1">>, <<"1">>, <<"1">>, <<"1">>, <<"B", "a">>, <<"1">>, <<"1">>, <<"x">>>>),
      Line(<<<<"-", "1">>, <<"1">>, <<"1">>, <<"1">>, <<"1">>, <<"1">>, <<"a">>, <<"1">>, <<"1">>, <<"x">>>>),
      Line(<<<<"1">>, <<"1">>, <<"1">>, <<"1">>, <<"1">>, <<"1">>, <<"a", "-">>, <<"1">>, <<"1">>, <<"x">>>>) }

CityFiles == {FileOf(ls, LF, TRUE) : ls \in SeqsUpTo(CityLines, MaxLines)}

\* a file with a header and no data line
EmptyFile == FileOf(<<>>, LF, TRUE)

\* the queries SearchStreets is called with
StreetQueries == {<<>>, <<"a">>, <<" ", "A">>, <<"b">>, <<" ">>}

\* the queries SearchCities is called with
CityQueries == {<<>>, <<"a">>, <<" ", "A">>}

\* the names GetGMIForStreet is called with
GmiNames == {<<>>, <<" ">>, <<" ", "A", "B", " ">>, <<"a">>, <<"u", " ", "a", "b">>}

\* the limits the searches are called with
Limits == (-1)..MaxLimit

\* the (woj, pow, gmi) filters SearchCities is called with
Filters == {<<0, 0, 0>>, <<1, 0, 0>>, <<0, 2, 0>>, <<0, 1, 1>>}

(***************************************************************************)
(* The state machine. It follows one caller at a time: a call computes its *)
(* result into ret, the caller takes the result, and the next call starts. *)
(* A call is one step here: it takes the lock when it starts and releases  *)
(* it when it returns. The steps of a call under the lock follow below.    *)
(***************************************************************************)
\* ret when no call is waiting for its caller
NoCall ==
    [op |-> "none", query |-> <<>>, limit |-> 0, filter |-> <<0, 0, 0>>,
     readable |-> TRUE, panicked |-> FALSE, err |-> FALSE, value |-> <<>>]

\* the goroutines that call the service
Goroutines == {"g1", "g2", "g3"}

\* no goroutine, where mu names one
NoOne == "none"

\* the zero value of sync.RWMutex: writer is the goroutine that holds the lock
\* exclusively, pending the one that has announced Lock and waits for the
\* readers to leave, readers the goroutines that hold the lock shared, waiting
\* those blocked in RLock
Unlocked == [writer |-> NoOne, pending |-> NoOne, readers |-> {}, waiting |-> {}]

\* a goroutine that is in no call: pc is its place in the call, op the
\* function called, readable whether the path of a load can be read, pos the
\* position of a load in its file, limit the limit of a query, err the error
\* a load returns or the panic of a query, seen the list a query has read
Idle ==
    [pc |-> "idle", op |-> "none", readable |-> TRUE, pos |-> 0, limit |-> 0,
     err |-> FALSE, seen |-> <<>>]

\* NewAutocompleteService: both lists empty, the lock free, no call running
NewAutocompleteService ==
    /\ streets = <<>>
    /\ cities = <<>>
    /\ ret = NoCall
    /\ mu = Unlocked
    /\ gor = [g \in Goroutines |-> Idle]

\* LoadCSV with the bug of emptying s.streets before the file is opened
LoadCSVResetsFirst ==
    /\ ret = NoCall
    /\ \E data \in {streetFile, Unreadable} :
         IF data = Unreadable
         THEN /\ ret' = [NoCall EXCEPT !.op = "LoadCSV", !.readable = FALSE, !.err = TRUE]
              /\ streets' = <<>>
         ELSE /\ streets' = ParseStreets(data)
              /\ ret' = [NoCall EXCEPT !.op = "LoadCSV"]
    /\ UNCHANGED <<streetFile, cityFile, cities, mu, gor>>

\* LoadCSV(filename), filename being the street file or a path that cannot be
\* opened or read: an error and nothing touched when the file cannot be opened
\* or read, else s.streets replaced by the records of the file
LoadCSV ==
    /\ ret = NoCall
    /\ \E data \in {streetFile, Unreadable} :
         IF data = Unreadable
         THEN /\ ret' = [NoCall EXCEPT !.op = "LoadCSV", !.readable = FALSE, !.err = TRUE]
              /\ UNCHANGED streets
         ELSE /\ streets' = ParseStreets(data)
              /\ ret' = [NoCall EXCEPT !.op = "LoadCSV"]
    /\ UNCHANGED <<streetFile, cityFile, cities, mu, gor>>

\* LoadCitiesCSV(filename), filename being the city file or a path that
\* cannot be read
LoadCitiesCSV ==
    /\ ret = NoCall
    /\ \E data \in {cityFile, Unreadable} :
         IF data = Unreadable
         THEN /\ ret' = [NoCall EXCEPT !.op = "LoadCitiesCSV", !.readable = FALSE, !.err = TRUE]
              /\ UNCHANGED cities
         ELSE /\ cities' = ParseCities(data)
              /\ ret' = [NoCall EXCEPT !.op = "LoadCitiesCSV"]
    /\ UNCHANGED <<streetFile, cityFile, streets, mu, gor>>

\* SearchStreets(query, limit)
SearchStreets ==
    /\ ret = NoCall
    /\ \E query \in StreetQueries, limit \in Limits :
         \E o \in SearchStreetsOutcomes(streets, query, limit) :
            ret' = [NoCall EXCEPT !.op = "SearchStreets", !.query = query,
                                  !.limit = limit, !.panicked = o.panicked,
                                  !.value = o.value]
    /\ UNCHANGED <<streetFile, cityFile, streets, cities, mu, gor>>

\* SearchCities(query, woj, pow, gmi, limit)
SearchCities ==
    /\ ret = NoCall
    /\ \E query \in CityQueries, f \in Filters, limit \in Limits :
         \E o \in SearchCitiesOutcomes(cities, query, f[1], f[2], f[3], limit) :
            ret' = [NoCall EXCEPT !.op = "SearchCities", !.query = query,
                                  !.limit = limit, !.filter = f,
                                  !.panicked = o.panicked, !.value = o.value]
    /\ UNCHANGED <<streetFile, cityFile, streets, cities, mu, gor>>

\* GetGMIForStreet(streetName)
GetGMIForStreet ==
    /\ ret = NoCall
    /\ \E name \in GmiNames :
         \E o \in GetGMIForStreetOutcomes(streets, name) :
            ret' = [NoCall EXCEPT !.op = "GetGMIForStreet", !.query = name,
                                  !.panicked = o.panicked, !.value = o.value]
    /\ UNCHANGED <<streetFile, cityFile, streets, cities, mu, gor>>

\* the caller takes the result of its call: a handler encodes its response
\* and ends, main goes on after a load
Respond ==
    /\ ret # NoCall
    /\ ret' = NoCall
    /\ UNCHANGED <<streetFile, cityFile, streets, cities, mu, gor>>

\* a street file with data lines and a city file without
InitStreets ==
    /\ streetFile \in StreetFiles
    /\ cityFile = EmptyFile
    /\ NewAutocompleteService

\* a city file with data lines and a street file without
InitCities ==
    /\ streetFile = EmptyFile
    /\ cityFile \in CityFiles
    /\ NewAutocompleteService

\* the service: its two loads and its three queries
Init == InitStreets \/ InitCities

Next ==
    \/ LoadCSV
    \/ LoadCitiesCSV
    \/ SearchStreets
    \/ SearchCities
    \/ GetGMIForStreet
    \/ Respond

Spec == Init /\ [][Next]_vars

(***************************************************************************)
(* The loaders on their own, over files of every line shape: valid lines,  *)
(* lines of nine and of eleven fields, a line without a name, a line whose *)
(* name is a quoted blank, an empty line; LF or CRLF line ends; the last   *)
(* line ended or not.                                                      *)
(***************************************************************************)
LoadStreetLines ==
    << Line(<<<<"1">>, <<"1">>, <<"1">>, <<"1">>, <<"1">>, <<"1">>, <<"u">>, <<"a", "b">>, <<>>, <<"x">>>>),
       Line(<<<<"2">>, <<"1">>, <<"1">>, <<"1">>, <<"1">>, <<"2">>, <<"u">>, <<"\"", "B", "a", "\"">>, <<"b">>, <<"x">>>>),
       Line(<<<<"1">>, <<"1">>, <<"1">>, <<"1">>, <<"1">>, <<"3">>, <<"u">>, <<"a", "b">>, <<"x">>>>),
       Line(<<<<"1">>, <<"1">>, <<"1">>, <<"1">>, <<"1">>, <<"3">>, <<"u">>, <<"a", "b">>, <<>>, <<"x">>, <<"x">>>>),
       Line(<<<<"1">>, <<"1">>, <<"1">>, <<"1">>, <<"1">>, <<"3">>, <<"u">>, <<>>, <<>>, <<"x">>>>),
       Line(<<<<"1">>, <<"1">>, <<"1">>, <<"1">>, <<"1">>, <<"3">>, <<"u">>, <<"\"", " ", "\"">>, <<>>, <<"x">>>>),
       <<>> >>

LoadCityLines ==
    << Line(<<<<"1">>, <<"1">>, <<"1">>, <<"1">>, <<"1">>, <<"1">>, <<"a", "b">>, <<"1">>, <<"1">>, <<"x">>>>),
       Line(<<<<"2">>, <<"1">>, <<"1">>, <<"1">>, <<"1">>, <<"1">>, <<"\"", "B", "a", "\"">>, <<"2">>, <<"1">>, <<"x">>>>),
       Line(<<<<"1">>, <<"1">>, <<"1">>, <<"1">>, <<"1">>, <<"1">>, <<"a", "b">>, <<"3">>, <<"x">>>>),
       Line(<<<<"1">>, <<"1">>, <<"1">>, <<"1">>, <<"1">>, <<"1">>, <<"a", "b">>, <<"3">>, <<"1">>, <<"x">>, <<"x">>>>),
       Line(<<<<"1">>, <<"1">>, <<"1">>, <<"1">>, <<"1">>, <<"1">>, <<>>, <<"3">>, <<"1">>, <<"x">>>>),
       Line(<<<<"1">>, <<"1">>, <<"1">>, <<"1">>, <<"1">>, <<"1">>, <<"\"", " ", "\"">>, <<"3">>, <<"1">>, <<"x">>>>),
       <<>> >>

\* the street file and the city file have the same shape: line i of each is
\* the street line and the city line of the same kind
InitLoad ==
    /\ \E shape \in SeqsUpTo(DOMAIN LoadStreetLines, MaxLines),
          eol \in {LF, CRLF}, finalEol \in BOOLEAN :
         /\ streetFile = FileOf([i \in DOMAIN shape |-> LoadStreetLines[shape[i]]], eol, finalEol)
         /\ cityFile = FileOf([i \in DOMAIN shape |-> LoadCityLines[shape[i]]], eol, finalEol)
    /\ NewAutocompleteService

NextLoad ==
    \/ LoadCSV
    \/ LoadCitiesCSV
    \/ Respond

SpecLoad == InitLoad /\ [][NextLoad]_vars

(***************************************************************************)
(* The loads and the queries over files with malformed lines: both files   *)
(* are made of valid lines, lines of nine fields and lines without a name. *)
(***************************************************************************)
\* the kinds of LoadStreetLines and LoadCityLines these files are made of
MalformedKinds == {1, 2, 3, 5}

InitMalformed ==
    /\ \E shape \in SeqsUpTo(MalformedKinds, MaxLines) :
         /\ streetFile = FileOf([i \in DOMAIN shape |-> LoadStreetLines[shape[i]]], LF, TRUE)
         /\ cityFile = FileOf([i \in DOMAIN shape |-> LoadCityLines[shape[i]]], LF, TRUE)
    /\ NewAutocompleteService

SpecMalformed == InitMalformed /\ [][Next]_vars

(***************************************************************************)
(* The loaders over files whose lines are valid but for their numeric      *)
(* fields: a number, no text, a letter, a digit string too large for int   *)
(* with and without a minus sign, digits followed by a letter.             *)
(***************************************************************************)
NumTexts ==
    << <<"1">>, <<>>, <<"x">>,
       <<"9", "9", "9", "9", "9", "9", "9", "9", "9", "9">>,
       <<"-", "9", "9", "9", "9", "9", "9", "9", "9", "9", "9">>,
       <<"1", "x">> >>

\* a street line and a city line whose first and last numeric fields have
\* the text t
NumStreetLine(t) ==
    Line(<<t, <<"1">>, <<"1">>, <<"1">>, <<"1">>, t, <<"u">>, <<"a", "b">>, <<>>, <<"x">>>>)

NumCityLine(t) ==
    Line(<<t, <<"1">>, <<"1">>, <<"1">>, <<"1">>, <<"1">>, <<"a", "b">>, <<"1">>, t, <<"x">>>>)

InitNum ==
    /\ \E shape \in SeqsUpTo(DOMAIN NumTexts, MaxLines) :
         /\ streetFile = FileOf([i \in DOMAIN shape |-> NumStreetLine(NumTexts[shape[i]])], LF, TRUE)
         /\ cityFile = FileOf([i \in DOMAIN shape |-> NumCityLine(NumTexts[shape[i]])], LF, TRUE)
    /\ NewAutocompleteService

SpecNum == InitNum /\ [][NextLoad]_vars

(***************************************************************************)
(* The calls under the lock. Each goroutine makes one call at a time; a    *)
(* call takes s.mu, does its work in steps and releases s.mu when it       *)
(* returns (defer). sync.RWMutex: Lock first excludes the other writers    *)
(* and new readers, then waits until the readers that hold the lock have   *)
(* left; RLock blocks while a writer holds the lock or waits for it;       *)
(* Unlock lets in the readers that were blocked.                           *)
(***************************************************************************)
LoadOps == {"LoadCSV", "LoadCitiesCSV"}

QueryOps == {"SearchStreets", "SearchCities", "GetGMIForStreet"}

\* the goroutines with g at the place loc of its call
Goto(g, loc) == [gor EXCEPT ![g].pc = loc]

\* the file a load of g reads
FileRead(g) == IF gor[g].op = "LoadCSV" THEN streetFile ELSE cityFile

\* a goroutine calls LoadCSV or LoadCitiesCSV, with the path of the data file
\* or a path that cannot be read
CallLoad(g) ==
    /\ gor[g].pc = "idle"
    /\ \E op \in LoadOps, readable \in BOOLEAN :
         gor' = [gor EXCEPT ![g] = [Idle EXCEPT !.pc = "Lock", !.op = op,
                                                !.readable = readable]]
    /\ UNCHANGED <<streetFile, cityFile, streets, cities, ret, mu>>

\* a goroutine calls one of the three queries; SearchStreets (with a query
\* that is not empty) and SearchCities take a limit, which may be negative
CallQuery(g) ==
    /\ gor[g].pc = "idle"
    /\ \E op \in QueryOps :
         \E limit \in IF op = "GetGMIForStreet" THEN {0} ELSE {-1, MaxLimit} :
             gor' = [gor EXCEPT ![g] = [Idle EXCEPT !.pc = "RLock", !.op = op,
                                                    !.limit = limit]]
    /\ UNCHANGED <<streetFile, cityFile, streets, cities, ret, mu>>

\* s.mu.Lock(), first half: the writer gets in once no other writer holds or
\* awaits the lock, and from then on new readers block
Lock(g) ==
    /\ gor[g].pc = "Lock"
    /\ mu.writer = NoOne /\ mu.pending = NoOne
    /\ mu' = [mu EXCEPT !.pending = g]
    /\ gor' = Goto(g, "Drain")
    /\ UNCHANGED <<streetFile, cityFile, streets, cities, ret>>

\* s.mu.Lock(), second half: the writer has the lock once the readers have left
LockAcquired(g) ==
    /\ gor[g].pc = "Drain"
    /\ mu.pending = g /\ mu.readers = {}
    /\ mu' = [mu EXCEPT !.pending = NoOne, !.writer = g]
    /\ gor' = Goto(g, "Open")
    /\ UNCHANGED <<streetFile, cityFile, streets, cities, ret>>

\* os.Open and os.ReadFile of a load: on an error the load returns it
OpenFile(g) ==
    /\ gor[g].pc = "Open"
    /\ gor' = IF gor[g].readable THEN Goto(g, "Make")
              ELSE [gor EXCEPT ![g].pc = "Unlock", ![g].err = TRUE]
    /\ UNCHANGED <<streetFile, cityFile, streets, cities, ret, mu>>

\* s.streets = make(...) or s.cities = make(...), and the header line read
MakeList(g) ==
    /\ gor[g].pc = "Make"
    /\ IF gor[g].op = "LoadCSV"
       THEN streets' = <<>> /\ UNCHANGED cities
       ELSE cities' = <<>> /\ UNCHANGED streets
    /\ gor' = [gor EXCEPT ![g].pc = "Loop",
                          ![g].pos = readLine(FileRead(g), 1, <<>>).pos]
    /\ UNCHANGED <<streetFile, cityFile, ret, mu>>

\* one round of the loop of a load: the next line read and, when it is valid,
\* its record appended; the loop ends when readLine returns an error
LoadLine(g) ==
    /\ gor[g].pc = "Loop"
    /\ LET r == readLine(FileRead(g), gor[g].pos, <<>>)
       IN  IF r.err
           THEN /\ gor' = Goto(g, "Unlock")
                /\ UNCHANGED <<streets, cities>>
           ELSE /\ gor' = [gor EXCEPT ![g].pos = r.pos]
                /\ IF gor[g].op = "LoadCSV"
                   THEN streets' = StreetLine(r.line, streets) /\ UNCHANGED cities
                   ELSE cities' = CityLine(r.line, cities) /\ UNCHANGED streets
    /\ UNCHANGED <<streetFile, cityFile, ret, mu>>

\* the deferred s.mu.Unlock() of a load, on each of its returns: the readers
\* that were blocked get the lock
Unlock(g) ==
    /\ gor[g].pc = "Unlock"
    /\ mu' = [mu EXCEPT !.writer = NoOne, !.readers = mu.waiting, !.waiting = {}]
    /\ gor' = Goto(g, "returned")
    /\ UNCHANGED <<streetFile, cityFile, streets, cities, ret>>

\* s.mu.RLock() with the bug of getting the lock whatever a writer does
RLockIgnoresWriter(g) ==
    /\ gor[g].pc = "RLock"
    /\ mu' = [mu EXCEPT !.readers = @ \cup {g}]
    /\ gor' = Goto(g, "Scan")
    /\ UNCHANGED <<streetFile, cityFile, streets, cities, ret>>

\* s.mu.RLock(): the reader gets the lock unless a writer holds or awaits it,
\* and blocks when one does
RLock(g) ==
    /\ gor[g].pc = "RLock"
    /\ IF mu.writer = NoOne /\ mu.pending = NoOne
       THEN /\ mu' = [mu EXCEPT !.readers = @ \cup {g}]
            /\ gor' = Goto(g, "Scan")
       ELSE /\ mu' = [mu EXCEPT !.waiting = @ \cup {g}]
            /\ gor' = Goto(g, "RWait")
    /\ UNCHANGED <<streetFile, cityFile, streets, cities, ret>>

\* a reader blocked in RLock goes on once Unlock has let it in
RLockWake(g) ==
    /\ gor[g].pc = "RWait"
    /\ g \in mu.readers
    /\ gor' = Goto(g, "Scan")
    /\ UNCHANGED <<streetFile, cityFile, streets, cities, ret, mu>>

\* the body of a query: make(..., 0, limit) panics when the limit is negative;
\* otherwise the query reads s.streets (SearchStreets, GetGMIForStreet) or
\* s.cities (SearchCities) as the list is at that moment
Scan(g) ==
    /\ gor[g].pc = "Scan"
    /\ gor' = IF gor[g].limit < 0
              THEN [gor EXCEPT ![g].pc = "RUnlock", ![g].err = TRUE]
              ELSE [gor EXCEPT ![g].pc = "RUnlock",
                               ![g].seen = IF gor[g].op = "SearchCities"
                                           THEN cities ELSE streets]
    /\ UNCHANGED <<streetFile, cityFile, streets, cities, ret, mu>>

\* the deferred s.mu.RUnlock() of a query, on its return or while its panic
\* unwinds; a panic goes on into the caller, which the service does not stop
RUnlock(g) ==
    /\ gor[g].pc = "RUnlock"
    /\ mu' = [mu EXCEPT !.readers = @ \ {g}]
    /\ gor' = Goto(g, IF gor[g].err THEN "panicked" ELSE "returned")
    /\ UNCHANGED <<streetFile, cityFile, streets, cities, ret>>

\* the caller takes what its call returned and is free for its next call
Return(g) ==
    /\ gor[g].pc = "returned"
    /\ gor' = [gor EXCEPT ![g] = Idle]
    /\ UNCHANGED <<streetFile, cityFile, streets, cities, ret, mu>>

\* the steps of a call of g between its start and its return
CallStep(g) ==
    \/ Lock(g)
    \/ LockAcquired(g)
    \/ OpenFile(g)
    \/ MakeList(g)
    \/ LoadLine(g)
    \/ Unlock(g)
    \/ RLock(g)
    \/ RLockWake(g)
    \/ Scan(g)
    \/ RUnlock(g)

\* the files of the runs under the lock: two valid lines each
InitConc ==
    /\ streetFile = FileOf(<<LoadStreetLines[1], LoadStreetLines[2]>>, LF, TRUE)
    /\ cityFile = FileOf(<<LoadCityLines[1], LoadCityLines[2]>>, LF, TRUE)
    /\ NewAutocompleteService

\* the service used as a library: every goroutine makes any call at any time
NextConc ==
    \E g \in Goroutines :
        \/ CallLoad(g)
        \/ CallQuery(g)
        \/ CallStep(g)
        \/ Return(g)

SpecConc == InitConc /\ [][NextConc]_vars

\* the files of the fair runs: one line each, which is not a record; what a
\* load stores has no part in the order of the steps
InitFair ==
    /\ streetFile = FileOf(<<<<"a", "b">>>>, LF, TRUE)
    /\ cityFile = FileOf(<<<<"a", "b">>>>, CRLF, FALSE)
    /\ NewAutocompleteService

\* the scheduler of Go lets every goroutine that can go on go on
SpecConcFair ==
    InitFair /\ [][NextConc]_vars /\ \A g \in Goroutines : WF_vars(CallStep(g))

(***************************************************************************)
(* The host process. main loads the streets, then the cities, each call to *)
(* its return, exits (log.Fatalf) when a load returns an error, and then   *)
(* serves: every request is handled in a goroutine of its own that makes   *)
(* one query.                                                              *)
(***************************************************************************)
\* the goroutine that runs main
Main == "g1"

\* the goroutines that handle requests
Handlers == Goroutines \ {Main}

\* limit := 10 of streetsHandler and citiesHandler
HandlerLimit == 10

\* service.LoadCSV(streetFile), the first call of main; the file may be
\* unreadable
MainLoadStreets ==
    /\ gor[Main].pc = "idle"
    /\ \E readable \in BOOLEAN :
         gor' = [gor EXCEPT ![Main] = [Idle EXCEPT !.pc = "Lock", !.op = "LoadCSV",
                                                   !.readable = readable]]
    /\ UNCHANGED <<streetFile, cityFile, streets, cities, ret, mu>>

\* service.LoadCitiesCSV(cityFile), once LoadCSV has returned nil
MainLoadCities ==
    /\ gor[Main].pc = "returned" /\ gor[Main].op = "LoadCSV" /\ ~gor[Main].err
    /\ \E readable \in BOOLEAN :
         gor' = [gor EXCEPT ![Main] = [Idle EXCEPT !.pc = "Lock",
                                                   !.op = "LoadCitiesCSV",
                                                   !.readable = readable]]
    /\ UNCHANGED <<streetFile, cityFile, streets, cities, ret, mu>>

\* log.Fatalf when a load has returned an error: the process exits
MainFatal ==
    /\ gor[Main].pc = "returned" /\ gor[Main].err
    /\ gor' = Goto(Main, "exit")
    /\ UNCHANGED <<streetFile, cityFile, streets, cities, ret, mu>>

\* http.ListenAndServe once LoadCitiesCSV has returned nil: main serves, or
\* exits when the server cannot start
MainServe ==
    /\ gor[Main].pc = "returned" /\ gor[Main].op = "LoadCitiesCSV" /\ ~gor[Main].err
    /\ \E ok \in BOOLEAN : gor' = Goto(Main, IF ok THEN "serve" ELSE "exit")
    /\ UNCHANGED <<streetFile, cityFile, streets, cities, ret, mu>>

\* the steps of the load main is in
MainStep ==
    \/ Lock(Main)
    \/ LockAcquired(Main)
    \/ OpenFile(Main)
    \/ MakeList(Main)
    \/ LoadLine(Main)
    \/ Unlock(Main)

\* a handler with the bug of being served before main serves
HandlerCallBeforeServing(g) ==
    /\ gor[g].pc = "idle"
    /\ \E op \in QueryOps :
         gor' = [gor EXCEPT ![g] = [Idle EXCEPT !.pc = "RLock", !.op = op,
                                                !.limit = HandlerLimit]]
    /\ UNCHANGED <<streetFile, cityFile, streets, cities, ret, mu>>

\* streetsHandler, citiesHandler or streetGMIHandler calls its query; the
\* server runs handlers only while main is in http.ListenAndServe
HandlerCall(g) ==
    /\ gor[Main].pc = "serve"
    /\ gor[g].pc = "idle"
    /\ \E op \in QueryOps :
         gor' = [gor EXCEPT ![g] = [Idle EXCEPT !.pc = "RLock", !.op = op,
                                                !.limit = HandlerLimit]]
    /\ UNCHANGED <<streetFile, cityFile, streets, cities, ret, mu>>

\* the steps of the query of a handler
HandlerStep(g) ==
    \/ RLock(g)
    \/ Scan(g)
    \/ RUnlock(g)

\* the handler writes its response and ends
HandlerRespond(g) == Return(g)

NextHost ==
    \/ MainLoadStreets
    \/ MainLoadCities
    \/ MainFatal
    \/ MainServe
    \/ MainStep
    \/ \E g \in Handlers : HandlerCall(g) \/ HandlerStep(g) \/ HandlerRespond(g)

SpecHost == InitConc /\ [][NextHost]_vars

(***************************************************************************)
(* Properties.                                                             *)
(***************************************************************************)
\* the elements of a sequence
Range(s) == {s[i] : i \in DOMAIN s}

\* a call of op has returned (it did not panic) and its result is in ret
HasReturned(op) == ret.op = op /\ ~ret.panicked

\* the query of 4.2 and 4.3 of the specification: lowercased and trimmed
SpecQuery(query) == ToLower(TrimSpace(query))

\* the match rule of 4.2 of the specification, on a name and a query
SpecMatches(name, query) == Contains(ToLower(name), SpecQuery(query))

\* C1: for every stored street sequence and every limit, SearchStreets("", N)
\* returns the empty sequence
C1_EmptyQueryReturnsNothing ==
    (ret.op = "SearchStreets" /\ ret.query = <<>>)
        => (~ret.panicked /\ ret.value = <<>>)

\* C1's case: the empty query on a loaded list, with a limit that would let
\* records through
C1_Witness ==
    /\ ret.op = "SearchStreets" /\ ret.query = <<>>
    /\ Len(streets) >= 2
    /\ ret.limit >= 1

\* street i is the first street in stored order that matches the query and
\* has its display name
FirstOfItsName(i, query) ==
    /\ SpecMatches(streets[i].NAZWA1, query)
    /\ \A j \in 1..(i - 1) :
         ~(SpecMatches(streets[j].NAZWA1, query) /\ streets[j].FullName = streets[i].FullName)

\* C2: for a non-empty query and a limit N >= 0, SearchStreets returns at most
\* N records, and they are exactly the first N matching records with pairwise
\* distinct display names in stored order; no later record is returned
C2_FirstNDistinctMatches ==
    (ret.op = "SearchStreets" /\ ret.query # <<>> /\ ret.limit >= 0) =>
        /\ ~ret.panicked
        /\ Len(ret.value) <= ret.limit
        /\ Cardinality(Range(ret.value)) = Len(ret.value)
        /\ Range(ret.value) =
             { streets[i] : i \in
                 { k \in DOMAIN streets :
                     /\ FirstOfItsName(k, ret.query)
                     /\ Cardinality({j \in 1..k : FirstOfItsName(j, ret.query)}) <= ret.limit } }

\* C2's case: the limit cuts the scan before a prefix match, which is left
\* out although it would rank before the record that is returned
C2_Witness ==
    /\ HasReturned("SearchStreets") /\ ret.query = <<"a">> /\ ret.limit = 1
    /\ Len(ret.value) = 1
    /\ ~HasPrefix(ToLower(ret.value[1].NAZWA1), <<"a">>)
    /\ \E i \in DOMAIN streets :
         /\ HasPrefix(ToLower(streets[i].NAZWA1), <<"a">>)
         /\ streets[i] \notin Range(ret.value)

\* C3 as claimed: every record SearchStreets returns for a non-empty query q
\* has a primary name that contains q, compared case-insensitively, also when
\* q has leading or trailing whitespace
C3_NameContainsQueryAsPassed ==
    (HasReturned("SearchStreets") /\ ret.query # <<>>) =>
        \A r \in Range(ret.value) : Contains(ToLower(r.NAZWA1), ToLower(ret.query))

\* C3 amended: every record SearchStreets returns for a non-empty query q has
\* a primary name that contains, compared case-insensitively, q without its
\* leading and trailing whitespace
C3_NameContainsTrimmedQuery ==
    (HasReturned("SearchStreets") /\ ret.query # <<>>) =>
        \A r \in Range(ret.value) :
            Contains(ToLower(r.NAZWA1), ToLower(TrimSpace(ret.query)))

\* C3's case: a query with leading whitespace returns records
C3_Witness ==
    /\ HasReturned("SearchStreets") /\ ret.query = <<" ", "A">>
    /\ Len(ret.value) >= 2

\* the name field the searches rank by
RankName(r) == IF ret.op = "SearchStreets" THEN r.NAZWA1 ELSE r.NAZWA

\* C4: in the result of SearchStreets and of SearchCities with a non-empty
\* query, records whose lowercased name starts with the query (lowercased and
\* trimmed, as 4.2 defines it) precede those that only contain it, and within
\* each group the names ascend in byte order
C4_PrefixFirstThenByName ==
    ((HasReturned("SearchStreets") \/ HasReturned("SearchCities")) /\ ret.query # <<>>) =>
        \A i, j \in DOMAIN ret.value :
            i < j =>
                LET prefixI == HasPrefix(ToLower(RankName(ret.value[i])), SpecQuery(ret.query))
                    prefixJ == HasPrefix(ToLower(RankName(ret.value[j])), SpecQuery(ret.query))
                IN  /\ prefixJ => prefixI
                    /\ (prefixI = prefixJ) =>
                          ~StrLess(RankName(ret.value[j]), RankName(ret.value[i]))

\* C4's case: a prefix match stands before a record that only contains the
\* query although its name is the greater one in byte order
C4_Witness ==
    /\ HasReturned("SearchStreets") /\ ret.query = <<"a">>
    /\ Len(ret.value) = 2
    /\ HasPrefix(ToLower(ret.value[1].NAZWA1), <<"a">>)
    /\ ~HasPrefix(ToLower(ret.value[2].NAZWA1), <<"a">>)
    /\ StrLess(ret.value[2].NAZWA1, ret.value[1].NAZWA1)

\* C5: no result of SearchStreets holds two records with the same display
\* name, and a returned record is the first in stored order of the matching
\* records with its display name
C5_OnePerDisplayName ==
    HasReturned("SearchStreets") =>
        /\ \A i, j \in DOMAIN ret.value :
             i # j => ret.value[i].FullName # ret.value[j].FullName
        /\ (ret.query # <<>>) =>
             \A r \in Range(ret.value) :
                \E i \in DOMAIN streets : streets[i] = r /\ FirstOfItsName(i, ret.query)

\* C5's case: two stored records that differ share a display name and match;
\* one entry is returned, the one stored first
C5_Witness ==
    /\ HasReturned("SearchStreets") /\ ret.query = <<"a">> /\ ret.limit = 2
    /\ Len(streets) = 2
    /\ streets[1] # streets[2]
    /\ streets[1].FullName = streets[2].FullName
    /\ ret.value = <<streets[1]>>

\* the cities that pass the filters of the call in ret, as 4.3 states them
PassesGivenFilters(c) ==
    /\ (ret.filter[1] > 0 => c.WOJ = ret.filter[1])
    /\ (ret.filter[2] > 0 => c.POW = ret.filter[2])
    /\ (ret.filter[3] > 0 => c.GMI = ret.filter[3])

\* when the limit did not end the scan of SearchCities: every stored city
\* that passes the filters of 4.3 and matches the query has the deduplication
\* key of a returned record
NothingElseExcluded ==
    Len(ret.value) < ret.limit =>
        \A i \in DOMAIN cities :
            (PassesGivenFilters(cities[i]) /\ SpecMatches(cities[i].NAZWA, ret.query)) =>
                \E r \in Range(ret.value) : CityKey(r) = CityKey(cities[i])

\* C6: every record SearchCities returns equals each positive filter in the
\* corresponding field, whatever its name; a filter of 0 restricts nothing,
\* and a record that meets every positive filter is not excluded by them
C6_FiltersHold ==
    HasReturned("SearchCities") =>
        /\ \A r \in Range(ret.value) : PassesGivenFilters(r)
        /\ NothingElseExcluded

\* C6's case: two filters are given, each of them excludes a stored record
\* that the other lets through, and a record is returned
C6_Witness ==
    /\ HasReturned("SearchCities") /\ ret.filter = <<0, 1, 1>> /\ ret.query = <<>>
    /\ Len(ret.value) = 1
    /\ \E i, j \in DOMAIN cities :
         /\ cities[i].POW # 1 /\ cities[i].GMI = 1
         /\ cities[j].POW = 1 /\ cities[j].GMI # 1

\* the call in ret is SearchCities("", 0, 0, 0, N) and it has returned
MatchAllReturned ==
    HasReturned("SearchCities") /\ ret.query = <<>> /\ ret.filter = <<0, 0, 0>>

\* C7 as claimed: SearchCities("", 0, 0, 0, N) returns up to N records in
\* strictly ascending byte order of their names
C7_StrictlyAscending ==
    MatchAllReturned =>
        /\ Len(ret.value) <= ret.limit
        /\ \A i \in 1..(Len(ret.value) - 1) :
             StrLess(ret.value[i].NAZWA, ret.value[i + 1].NAZWA)

\* C7 amended: every result SearchCities("", 0, 0, 0, N) returns holds at most
\* N stored records, every stored record counts as a match, and the names
\* ascend in byte order, equal names allowed next to each other
C7_Ascending ==
    MatchAllReturned =>
        /\ Len(ret.value) <= ret.limit
        /\ Range(ret.value) \subseteq Range(cities)
        /\ NothingElseExcluded
        /\ \A i \in 1..(Len(ret.value) - 1) :
             ~StrLess(ret.value[i + 1].NAZWA, ret.value[i].NAZWA)

\* C7's case: two localities of the same name in two municipalities are both
\* returned
C7_Witness ==
    /\ MatchAllReturned
    /\ Len(ret.value) = 2
    /\ ret.value[1].NAZWA = ret.value[2].NAZWA
    /\ ret.value[1].GMI # ret.value[2].GMI

\* the 4-tuple (name, woj, pow, gmi) of a city
CityTuple(c) == <<c.NAZWA, c.WOJ, c.POW, c.GMI>>

\* C8: SearchCities collapses two matching records if and only if they agree
\* on all four of name, woj, pow and gmi: no result holds two records of one
\* 4-tuple, and when the limit did not end the scan, every stored record that
\* passes the filters and matches has its 4-tuple in the result
C8_DedupByTuple ==
    HasReturned("SearchCities") =>
        /\ \A i, j \in DOMAIN ret.value :
             i # j => CityTuple(ret.value[i]) # CityTuple(ret.value[j])
        /\ Len(ret.value) < ret.limit =>
              \A i \in DOMAIN cities :
                 (PassesGivenFilters(cities[i]) /\ SpecMatches(cities[i].NAZWA, ret.query)) =>
                     \E r \in Range(ret.value) : CityTuple(r) = CityTuple(cities[i])

\* the (woj, pow, gmi) triple of a street, as GetGMIForStreet returns it
Triple(st) == [woj |-> st.WOJ, pow |-> st.POW, gmi |-> st.GMI]

\* C9: GetGMIForStreet(name) returns the triples of exactly the stored streets
\* whose primary name equals the trimmed name case-insensitively, each once,
\* in ascending (woj, pow, gmi) order, and nothing for a blank name
C9_ExactNameTriples ==
    ret.op = "GetGMIForStreet" =>
        /\ ~ret.panicked
        /\ TrimSpace(ret.query) = <<>> => ret.value = <<>>
        /\ Range(ret.value) =
             { Triple(streets[i]) : i \in
                 { k \in DOMAIN streets :
                     ToLower(streets[k].NAZWA1) = ToLower(TrimSpace(ret.query)) } }
        /\ \A i \in 1..(Len(ret.value) - 1) :
             LET a == ret.value[i]
                 b == ret.value[i + 1]
             IN  \/ a.woj < b.woj
                 \/ a.woj = b.woj /\ a.pow < b.pow
                 \/ a.woj = b.woj /\ a.pow = b.pow /\ a.gmi < b.gmi

\* C9's case: three stored streets of the name, of two triples, stored in
\* descending order of the triples; the name is given padded and in capitals
C9_Witness ==
    /\ HasReturned("GetGMIForStreet") /\ ret.query = <<" ", "A", "B", " ">>
    /\ Len(streets) = 3
    /\ streets[1].WOJ = 2
    /\ streets[2] = streets[3]
    /\ Len(ret.value) = 2

\* the lines of a text: its pieces between line feeds, the piece after the
\* last line feed only when it is not empty
TextLines(data) ==
    LET pieces == Split(data, "\n")
    IN  IF pieces[Len(pieces)] = <<>> THEN SubSeq(pieces, 1, Len(pieces) - 1) ELSE pieces

\* the data lines of a file: its lines after the header
DataLines(data) == Tail(TextLines(data))

\* a data line of exactly ten fields whose name field (field 8 of a street
\* line) is not empty once its whitespace and its quotes are stripped
ValidStreetLine(line) ==
    /\ Len(Split(line, ";")) = NumFields
    /\ CleanField(Split(line, ";")[8]) # <<>>

\* the same for a city line (field 7)
ValidCityLine(line) ==
    /\ Len(Split(line, ";")) = NumFields
    /\ CleanField(Split(line, ";")[7]) # <<>>

\* C10: after a successful load the stored sequence holds exactly one record
\* for each data line of ten fields with a non-empty name, in file order
C10_OneRecordPerValidLine ==
    /\ (ret.op = "LoadCSV" /\ ~ret.err) =>
          LET valid == SelectSeq(DataLines(streetFile), ValidStreetLine)
          IN  streets = [k \in 1..Len(valid) |-> StreetOf(CleanFields(Split(valid[k], ";")))]
    /\ (ret.op = "LoadCitiesCSV" /\ ~ret.err) =>
          LET valid == SelectSeq(DataLines(cityFile), ValidCityLine)
          IN  cities = [k \in 1..Len(valid) |-> CityOf(CleanFields(Split(valid[k], ";")))]

\* C10's case: a file of three data lines in CRLF form, the last one without
\* its line end, a malformed line between two valid ones; two records stored
C10_Witness ==
    /\ ret.op = "LoadCSV" /\ ~ret.err
    /\ Len(DataLines(streetFile)) = 3
    /\ streetFile[Len(streetFile)] # "\n"
    /\ \E i \in DOMAIN streetFile : streetFile[i] = "\r"
    /\ ~ValidStreetLine(DataLines(streetFile)[2])
    /\ Len(streets) = 2
    /\ streets[1].NAZWA1 # streets[2].NAZWA1

\* the records of the data lines of the street file that have ten fields and
\* a name
ValidStreetRecords ==
    { StreetOf(CleanFields(Split(l, ";"))) :
        l \in {x \in Range(DataLines(streetFile)) : ValidStreetLine(x)} }

\* the same for the city file
ValidCityRecords ==
    { CityOf(CleanFields(Split(l, ";"))) :
        l \in {x \in Range(DataLines(cityFile)) : ValidCityLine(x)} }

\* C11: a data line with a field count other than 10 or without a name never
\* produces a stored record and never stops the load: the load of a readable
\* file returns no error and stores a record for every valid line, those
\* after a malformed line included; every stored record has a name, and no
\* query result holds a record that is not the record of a valid line
C11_MalformedLinesSkipped ==
    /\ \A i \in DOMAIN streets : streets[i].NAZWA1 # <<>>
    /\ \A i \in DOMAIN cities : cities[i].NAZWA # <<>>
    /\ (ret.op = "LoadCSV" /\ ret.readable) =>
          /\ ~ret.err
          /\ Len(streets) = Len(SelectSeq(DataLines(streetFile), ValidStreetLine))
          /\ Range(streets) = ValidStreetRecords
    /\ (ret.op = "LoadCitiesCSV" /\ ret.readable) =>
          /\ ~ret.err
          /\ Len(cities) = Len(SelectSeq(DataLines(cityFile), ValidCityLine))
          /\ Range(cities) = ValidCityRecords
    /\ ret.op = "SearchStreets" => Range(ret.value) \subseteq ValidStreetRecords
    /\ ret.op = "SearchCities" => Range(ret.value) \subseteq ValidCityRecords
    /\ ret.op = "GetGMIForStreet" =>
          Range(ret.value) \subseteq {Triple(r) : r \in ValidStreetRecords}

\* C11's case: the street file has a line of nine fields, then a line without
\* a name, then a valid line; the valid line is stored and a search that
\* takes every name returns it alone
C11_Witness ==
    /\ HasReturned("SearchStreets") /\ ret.query = <<" ">> /\ ret.limit = 2
    /\ Len(DataLines(streetFile)) = 3
    /\ Len(Split(DataLines(streetFile)[1], ";")) = 9
    /\ Len(Split(DataLines(streetFile)[2], ";")) = NumFields
    /\ ~ValidStreetLine(DataLines(streetFile)[2])
    /\ ValidStreetLine(DataLines(streetFile)[3])
    /\ Len(streets) = 1
    /\ ret.value = streets

\* the text s is not an integer of the type int: it is not an optional sign
\* and digits, or its value is out of the range of int
FailsToParse(s) ==
    LET body == IF s # <<>> /\ Head(s) \in {"+", "-"} THEN Tail(s) ELSE s
    IN  \/ body = <<>>
        \/ \E i \in 1..Len(body) : ~IsDigit(body[i])
        \/ ParseDigits(body, 0) = -1 /\ s # FormatInt(IntMin)

\* the numeric fields of a stored street and the positions of their texts in
\* the line
StreetNumbers(r) == <<r.WOJ, r.POW, r.GMI, r.RODZGMI, r.SYM, r.SYMUL>>
StreetNumberFields == <<1, 2, 3, 4, 5, 6>>

\* the same for a stored city
CityNumbers(r) == <<r.WOJ, r.POW, r.GMI, r.RODZGMI, r.RM, r.MZ, r.SYM, r.SYMPOD>>
CityNumberFields == <<1, 2, 3, 4, 5, 6, 8, 9>>

\* C12: when a numeric field of an otherwise valid line fails to parse as an
\* integer (no text, a text that is not digits, a digit string too large for
\* int), the record is still stored and that field of the record is 0
C12_UnparsedIsZero ==
    /\ (ret.op = "LoadCSV" /\ ret.readable) =>
          LET valid == SelectSeq(DataLines(streetFile), ValidStreetLine)
          IN  /\ Len(streets) = Len(valid)
              /\ \A k \in DOMAIN streets : \A n \in DOMAIN StreetNumberFields :
                    FailsToParse(CleanField(Split(valid[k], ";")[StreetNumberFields[n]]))
                        => StreetNumbers(streets[k])[n] = 0
    /\ (ret.op = "LoadCitiesCSV" /\ ret.readable) =>
          LET valid == SelectSeq(DataLines(cityFile), ValidCityLine)
          IN  /\ Len(cities) = Len(valid)
              /\ \A k \in DOMAIN cities : \A n \in DOMAIN CityNumberFields :
                    FailsToParse(CleanField(Split(valid[k], ";")[CityNumberFields[n]]))
                        => CityNumbers(cities[k])[n] = 0

\* C13: SearchStreets, SearchCities and GetGMIForStreet are total: for every
\* query, every filter and every limit, zero and negative limits included,
\* the call returns a result, possibly empty, and never panics
C13_QueriesNeverPanic ==
    ret.op \in {"SearchStreets", "SearchCities", "GetGMIForStreet"} => ~ret.panicked

\* C14: a load whose file cannot be opened or read returns an error and
\* leaves both stored sequences as they were before the call; a load whose
\* file is readable returns no error, however many of its lines are malformed
C14_FailedLoadChangesNothing ==
    [][(ret.op = "none" /\ ret'.op \in {"LoadCSV", "LoadCitiesCSV"}) =>
          /\ ret'.err <=> ~ret'.readable
          /\ ret'.err => (streets' = streets /\ cities' = cities)]_vars

\* C14's case: both sequences hold records of earlier loads when a street
\* load fails; the street file itself has a malformed line
C14_Witness ==
    /\ ret.op = "LoadCSV" /\ ret.err
    /\ Len(streets) >= 1
    /\ Len(cities) >= 1
    /\ \E l \in Range(DataLines(streetFile)) : ~ValidStreetLine(l)

\* the call in ret is a SearchStreets that went through its scan and returned
StreetScanReturned ==
    HasReturned("SearchStreets") /\ ret.query # <<>> /\ ret.limit >= 0

\* C18 as claimed: matches are counted before deduplication, so no record
\* SearchStreets returns lies past the limit-th matching record in stored order
C18_DuplicatesCountTowardLimit ==
    StreetScanReturned =>
        \A r \in Range(ret.value) :
            \E i \in DOMAIN streets :
                /\ streets[i] = r
                /\ Cardinality({j \in 1..i : SpecMatches(streets[j].NAZWA1, ret.query)})
                      <= ret.limit

\* C18 amended: only the matches that are kept count toward the limit, a match
\* dropped as a duplicate does not: the result has limit records whenever
\* limit matching display names are stored, and no returned record lies past
\* the limit-th match that is the first of its display name
C18_OnlyKeptMatchesCount ==
    StreetScanReturned =>
        LET firsts == {k \in DOMAIN streets : FirstOfItsName(k, ret.query)}
        IN  /\ Len(ret.value) =
                  (IF Cardinality(firsts) < ret.limit THEN Cardinality(firsts) ELSE ret.limit)
            /\ \A r \in Range(ret.value) :
                  \E i \in firsts :
                      /\ streets[i] = r
                      /\ Cardinality({j \in firsts : j <= i}) <= ret.limit

\* C18's case: the two first stored streets match and share a display name,
\* the limit is 2, and the third stored street, the third match, is returned
C18_Witness ==
    /\ StreetScanReturned /\ ret.limit = 2
    /\ Len(streets) = 3
    /\ streets[1].FullName = streets[2].FullName
    /\ \A i \in 1..3 : SpecMatches(streets[i].NAZWA1, ret.query)
    /\ Len(ret.value) = 2
    /\ streets[3] \in Range(ret.value)

\* the stored sequence the search in ret scanned
ScannedList == IF ret.op = "SearchStreets" THEN streets ELSE cities

\* the place in the scanned sequence where the record r is met first
FirstPlace(r) ==
    CHOOSE i \in DOMAIN ScannedList :
        ScannedList[i] = r /\ \A j \in 1..(i - 1) : ScannedList[j] # r

\* C19: whenever two records of a search result are tied under the ranking
\* rule (same group, equal name field), they stand in the result in the same
\* relative order as in the stored sequence, for every limit
C19_TiesKeepStoredOrder ==
    (HasReturned("SearchStreets") \/ HasReturned("SearchCities")) =>
        \A i, j \in DOMAIN ret.value :
            (i < j /\ RankName(ret.value[i]) = RankName(ret.value[j])) =>
                FirstPlace(ret.value[i]) < FirstPlace(ret.value[j])

\* a text field as the specification wants it stored: without its wrapping
\* double quotes and its surrounding whitespace
FullyCleaned(f) == Trim(f, {c \in DOMAIN CharCode : IsSpace(c)} \cup {"\""})

\* the text neither begins nor ends with whitespace or a double quote
NoOuterSpaceOrQuote(f) ==
    f = <<>> \/ (~IsSpace(f[1]) /\ f[1] # "\"" /\ ~IsSpace(f[Len(f)]) /\ f[Len(f)] # "\"")

\* a data line of ten fields whose name field (field n) is not empty once
\* quotes and whitespace are stripped
HasNameAt(line, n) ==
    Len(Split(line, ";")) = NumFields /\ FullyCleaned(Split(line, ";")[n]) # <<>>

\* C20: every text field of every stored record has had its wrapping double
\* quotes and its surrounding whitespace removed, and the name check is made
\* on that value: a line whose name is empty or whitespace-only once quotes
\* and whitespace are stripped (a quoted blank) is skipped, and no stored name
\* begins or ends with whitespace or a double quote
C20_FieldsFullyCleaned ==
    /\ \A i \in DOMAIN streets :
          /\ NoOuterSpaceOrQuote(streets[i].CECHA)
          /\ NoOuterSpaceOrQuote(streets[i].NAZWA1)
          /\ NoOuterSpaceOrQuote(streets[i].NAZWA2)
    /\ \A i \in DOMAIN cities : NoOuterSpaceOrQuote(cities[i].NAZWA)
    /\ (ret.op = "LoadCSV" /\ ret.readable) =>
          Len(streets) = Cardinality({k \in DOMAIN DataLines(streetFile) :
                                        HasNameAt(DataLines(streetFile)[k], 8)})
    /\ (ret.op = "LoadCitiesCSV" /\ ret.readable) =>
          Len(cities) = Cardinality({k \in DOMAIN DataLines(cityFile) :
                                       HasNameAt(DataLines(cityFile)[k], 7)})

\* the goroutine is in a load, between Lock and the deferred Unlock
InLoad(g) == gor[g].pc \in {"Open", "Make", "Loop", "Unlock"}

\* the goroutine is in a query, between RLock and the deferred RUnlock
InQuery(g) == gor[g].pc \in {"Scan", "RUnlock"}

\* the load of g is between its first change of its list (make) and its last
\* append
Modifying(g) == gor[g].pc = "Loop"

\* the list is one no load is working on: the empty list of the new service or
\* all the records of the file
WholeList(list, op) ==
    \/ list = <<>>
    \/ op = "SearchCities" /\ list = ParseCities(cityFile)
    \/ op # "SearchCities" /\ list = ParseStreets(streetFile)

\* C15: under any interleaving of loads and queries, no query reads a stored
\* sequence while a load is between its first modification and its last
\* append: a load holds the lock exclusively for its whole duration, a query
\* holds it shared for its whole execution, and a writer never holds the lock
\* together with a reader or another writer
C15_LoadsExcludeQueries ==
    /\ \A g \in Goroutines : InLoad(g) => (mu.writer = g /\ mu.readers = {})
    /\ \A g \in Goroutines : InQuery(g) => (g \in mu.readers /\ mu.writer = NoOne)
    /\ \A g, h \in Goroutines : (g # h /\ InLoad(g)) => ~(InLoad(h) \/ InQuery(h))
    /\ \A g, h \in Goroutines : gor[g].pc = "Scan" => ~Modifying(h)
    /\ \A g \in Goroutines :
         gor[g].pc = "RUnlock" => WholeList(gor[g].seen, gor[g].op)

\* C15's case: two queries hold the lock at the same time, both have read a
\* loaded list, and a load that has called Lock waits for them
C15_Witness ==
    \E g, h, w \in Goroutines :
        /\ g # h
        /\ gor[g].pc = "RUnlock" /\ gor[h].pc = "RUnlock"
        /\ {g, h} \subseteq mu.readers
        /\ gor[g].seen # <<>> /\ gor[h].seen # <<>>
        /\ gor[w].pc = "Drain" /\ mu.pending = w

\* the goroutine has started a query that has not returned yet
QueryStarted(g) == gor[g].pc \in {"RLock", "RWait", "Scan", "RUnlock"}

\* the goroutine holds nothing of the lock and does not wait for it
HoldsNothing(g) ==
    /\ mu.writer # g /\ mu.pending # g
    /\ g \notin mu.readers /\ g \notin mu.waiting

\* C17: under fair scheduling and any interleaving with other queries and
\* with loads, every query that has started eventually returns; a call that
\* has returned holds nothing of the lock, on the error returns of a load too
C17_QueriesReturn ==
    /\ \A g \in Goroutines : QueryStarted(g) ~> (gor[g].pc = "returned")
    /\ [](\A g \in Goroutines : gor[g].pc \in {"returned", "idle"} => HoldsNothing(g))

\* C16: in the host process the street load runs to completion before the
\* city load starts; no query is served before both loads have completed
\* successfully (and then no query ever waits for the lock); when a load
\* returns an error the process exits and never serves a query
C16_LoadsBeforeServing ==
    /\ [](gor[Main].op = "LoadCitiesCSV" => streets = ParseStreets(streetFile))
    /\ [](gor[Main].op = "LoadCSV" => cities = <<>>)
    /\ [](\A g \in Handlers :
            gor[g].pc # "idle" =>
                /\ gor[Main].pc = "serve" /\ gor[Main].op = "LoadCitiesCSV"
                /\ ~gor[Main].err
                /\ streets = ParseStreets(streetFile)
                /\ cities = ParseCities(cityFile)
                /\ gor[g].pc # "RWait")
    /\ [][(gor[Main].pc = "returned" /\ gor[Main].err)
            => gor'[Main].pc = "exit"]_vars
    /\ [][gor[Main].pc = "exit" => gor' = gor]_vars

\* C16's case: main serves and a handler has read a loaded list in its query
C16_Witness ==
    /\ gor[Main].pc = "serve"
    /\ \E g \in Handlers : gor[g].pc = "RUnlock" /\ gor[g].seen # <<>>

\* C21: SearchStreets treats a query that is empty after trimming (only
\* whitespace) like the empty query: for every stored street sequence and
\* every limit, a call that returns with such a query returns the empty
\* sequence
C21_BlankQueryReturnsNothing ==
    (HasReturned("SearchStreets") /\ TrimSpace(ret.query) = <<>>)
        => ret.value = <<>>

====
